---- MODULE Spec2Model ----
(***************************************************************************)
(* Model of the Popmart restock monitor (monitor.js, server.js,            *)
(* start.sh): configuration checks, state.json load and seed, the retry    *)
(* wrapper, the per-URL inspect / notify / update loop, the state save and *)
(* the browser teardown, run after run over one persistent state file.     *)
(***************************************************************************)
EXTENDS Integers, Sequences, FiniteSets, TLC

(* ---------------------------------------------------------------------- *)
(* Bounds and program constants                                            *)
(* ---------------------------------------------------------------------- *)

\* Number of process runs (start.sh restarts the monitor) explored.
MaxRuns == 2

\* Largest number of "ADD TO BAG" elements the locator count may report.
MaxAddCount == 2

\* Largest maxAttempts argument given to withRetries in SpecRetry.
MaxRetriesArg == 3
MaxPings == 2

\* withRetries(fn, retries = 3, delay = 500)
DefaultRetries == 3

\* Keys that can appear in state.json or in POP_MART_URLS.
Keys == {"X", "Y"}

\* Values of POP_MART_URLS after split / trim / filter(Boolean): no list,
\* one URL (the other key is then untracked), two URLs, a repeated URL.
TrackedLists == {<< >>, <<"X">>, <<"X", "Y">>, <<"X", "X">>}

(* ---------------------------------------------------------------------- *)
(* JavaScript values                                                       *)
(* ---------------------------------------------------------------------- *)

\* The value of one property: a boolean, another JSON value ("other": a
\* number, string, null, array or object), or no property ("undefined").
EntryVals == {"true", "false", "other", "undefined"}

NoProps == [k \in Keys |-> "undefined"]

\* A parsed JSON document, or the in-memory `state`: its kind and its own
\* properties named by Keys.
JsonVals ==
    [kind : {"object"}, props : [Keys -> EntryVals]]
        \cup [kind : {"array", "primitive", "null"}, props : {NoProps}]

\* The content of state.json.
FileVals == [kind : {"missing", "malformed"}, props : {NoProps}] \cup JsonVals

EmptyObject == [kind |-> "object", props |-> NoProps]

BoolStr(b) == IF b THEN "true" ELSE "false"

\* state[url]: undefined on a number, string or boolean, the own property
\* otherwise.  (On null the read raises; callers test CanRead first.)
CanRead(st) == st.kind # "null"

Get(st, url) == IF st.kind \in {"object", "array"} THEN st.props[url] ELSE "undefined"

\* state[url] = v in sloppy mode: sets the property on an object or array,
\* is silently ignored on a number, string or boolean.
Put(st, url, v) ==
    IF st.kind \in {"object", "array"}
    THEN [st EXCEPT !.props[url] = v]
    ELSE st

\* typeof v !== 'boolean'
NotBoolean(v) == v \notin {"true", "false"}

\* !v for the values a tracked entry can hold.
Falsy(v) == v \in {"false", "undefined"}

\* Variant of Stringify that writes only the boolean entries.
StringifyBooleansOnly(st) ==
    IF st.kind = "object"
    THEN [kind |-> "object",
          props |-> [k \in Keys |-> IF st.props[k] \in {"true", "false"}
                                    THEN st.props[k] ELSE "undefined"]]
    ELSE [kind |-> st.kind, props |-> NoProps]

\* JSON.parse(JSON.stringify(st, null, 2)): an object keeps its properties,
\* an array keeps only its indexed elements, a primitive and null are kept.
Stringify(st) ==
    IF st.kind = "object"
    THEN [kind |-> "object", props |-> st.props]
    ELSE [kind |-> st.kind, props |-> NoProps]

Range(s) == {s[n] : n \in 1..Len(s)}

(* ---------------------------------------------------------------------- *)
(* State                                                                   *)
(* ---------------------------------------------------------------------- *)

VARIABLES
    URLs,        \* the tracked list (POP_MART_URLS)
    TOKEN,       \* PUSHOVER_TOKEN is set
    USER,        \* PUSHOVER_USER_KEY is set
    file,        \* content of state.json
    state,       \* the in-memory `state`
    pc,          \* position of the process
    idx,         \* index in URLs of the URL being processed (0: none yet)
    wasInStock,  \* state[url] read at the top of the loop body
    nowInStock,  \* value returned by withRetries ("none": not returned)
    attempt,     \* withRetries' counter of failed attempts
    retries,     \* withRetries' maxAttempts argument
    browser,     \* "none", "open", "closed"
    runs,        \* number of process starts so far
    calls,       \* invocations of fn by the current withRetries call
    delays,      \* delays waited by the current withRetries call
    lastCount,   \* addCount reported by the last completed attempt (-1: none)
    inspected,   \* indices of URLs for which an inspection attempt began
    sent,        \* per key: notification requests issued in this run
    acked,       \* per key: notification requests that returned in this run
    seen,        \* per key: what this run's inspections observed
    saved,       \* outcome of this run's state save
    loaded,      \* how this run's load ended
    seeded,      \* `state` as it was when the per-URL loop began
    prev,        \* summary of the previous run
    err,         \* the error caught by withRetries' catch block ("none": none)
    thrown,      \* the error withRetries raised to the loop body's catch
    navs,        \* page.goto calls settled in the current invocation of fn
    nav1,        \* outcome of the first page.goto of the current invocation
    writes,      \* writeFileSync calls on state.json in this run
    closes,      \* browser.close() calls in this run
    pings,       \* GET /ping requests handled by the server
    triggered,   \* runs started by the /ping handler
    reply        \* the response to the last GET /ping ("none": no request)

vars == << URLs, TOKEN, USER, file, state, pc, idx, wasInStock, nowInStock,
           attempt, retries, browser, runs, calls, delays, lastCount,
           inspected, sent, acked, seen, saved, loaded, seeded, prev,
           err, thrown, navs, nav1, writes, closes, pings, triggered, reply >>

config == << URLs, TOKEN, USER, retries >>
perUrl == << idx, wasInStock, nowInStock, attempt, calls, delays, lastCount, inspected >>
history == << sent, acked, seen >>
startup == << loaded, seeded >>
tries == << err, thrown, navs, nav1 >>
ends == << writes, closes >>
server == << pings, triggered, reply >>

NoCounts == [k \in Keys |-> 0]
NothingSeen == [k \in Keys |-> "none"]
NoPrev == [ran |-> FALSE, sent |-> NoCounts, acked |-> NoCounts,
           seen |-> NothingSeen, saved |-> "none"]

\* What a run has observed of a key: "none", then the observation ("true",
\* "false") or "failed"; "mixed" once two inspections of the key differ.
Observe(old, new) == IF old \in {"none", new} THEN new ELSE "mixed"

url == URLs[idx]

(* ---------------------------------------------------------------------- *)
(* Start of a run: configuration, load, seed                               *)
(* ---------------------------------------------------------------------- *)

FreshRun(r) ==
    /\ pc = "config"
    /\ state = EmptyObject
    /\ idx = 0 /\ wasInStock = "undefined" /\ nowInStock = "none"
    /\ attempt = 0 /\ calls = 0 /\ delays = 0 /\ lastCount = -1
    /\ inspected = {}
    /\ browser = "none"
    /\ sent = NoCounts /\ acked = NoCounts /\ seen = NothingSeen
    /\ saved = "none"
    /\ loaded = "none"
    /\ seeded = EmptyObject
    /\ err = "none" /\ thrown = "none" /\ navs = 0 /\ nav1 = "none"
    /\ writes = 0 /\ closes = 0
    /\ pings = 0 /\ triggered = 0 /\ reply = "none"
    /\ runs = r

Init ==
    /\ URLs \in TrackedLists
    /\ TOKEN \in BOOLEAN
    /\ USER \in BOOLEAN
    /\ file \in FileVals
    /\ retries = DefaultRetries
    /\ prev = NoPrev
    /\ FreshRun(1)

\* Variant of ConfigOk that accepts one credential without the other.
ConfigOkEitherCredential(urls, token, user) == Len(urls) # 0 /\ (token \/ user)

\* if (!URLs.length) exit(1); if (!TOKEN || !USER) exit(1)
ConfigOk(urls, token, user) == Len(urls) # 0 /\ token /\ user

CheckConfig ==
    /\ pc = "config"
    /\ pc' = IF ConfigOk(URLs, TOKEN, USER) THEN "load" ELSE "exited"
    /\ UNCHANGED << config, file, state, perUrl, browser, runs, history, saved, startup, prev, tries, ends, server >>

\* Variant of LoadResult without the try/catch: an unreadable or unparsable
\* file leaves no usable state.
LoadResultUncaught(f, readOk) ==
    IF f.kind = "missing" THEN EmptyObject
    ELSE IF ~readOk \/ f.kind = "malformed" THEN [kind |-> "null", props |-> NoProps]
    ELSE [kind |-> f.kind, props |-> f.props]

\* let state = {}; if (existsSync) try { state = JSON.parse(readFileSync) } catch {}
LoadResult(f, readOk) ==
    IF f.kind = "missing" THEN EmptyObject
    ELSE IF ~readOk \/ f.kind = "malformed" THEN EmptyObject
    ELSE [kind |-> f.kind, props |-> f.props]

\* Which branch the load took: no file, the catch block, or a parsed value.
LoadBranch(f, readOk) ==
    IF f.kind = "missing" THEN "missing"
    ELSE IF ~readOk \/ f.kind = "malformed" THEN "recovered"
    ELSE "parsed"

LoadState ==
    /\ pc = "load"
    /\ \E readOk \in BOOLEAN :
        /\ state' = LoadResult(file, readOk)
        /\ loaded' = LoadBranch(file, readOk)
    /\ pc' = "seed"
    /\ UNCHANGED << config, file, perUrl, browser, runs, history, saved, seeded, prev, tries, ends, server >>

\* Variant of SeedOne without the typeof test.
SeedOneAlways(st, u) == Put(st, u, "false")

\* One iteration of the seeding loop.
SeedOne(st, u) == IF NotBoolean(Get(st, u)) THEN Put(st, u, "false") ELSE st

RECURSIVE Seed(_, _)
Seed(st, urls) ==
    IF urls = << >> THEN st ELSE Seed(SeedOne(st, Head(urls)), Tail(urls))

\* for (const url of URLs) if (typeof state[url] !== 'boolean') state[url] = false
\* Reading a property of null raises at the top level of the module.
SeedState ==
    /\ pc = "seed"
    /\ IF CanRead(state)
       THEN state' = Seed(state, URLs) /\ pc' = "launch"
       ELSE state' = state /\ pc' = "crashed"
    /\ seeded' = state'
    /\ UNCHANGED << config, file, perUrl, browser, runs, history, saved, loaded, prev, tries, ends, server >>

\* chromium.launch, browser.newContext, context.newPage: a rejection of any
\* of them is unhandled; after a successful launch the browser stays open.
Launch ==
    /\ pc = "launch"
    /\ \E r \in {"ok", "launch_failed", "context_failed"} :
        /\ browser' = IF r = "launch_failed" THEN "none" ELSE "open"
        /\ pc' = IF r = "ok" THEN "consent" ELSE "crashed"
    /\ UNCHANGED << config, file, state, perUrl, runs, history, saved, startup, prev, tries, ends, server >>

\* The one-time consent step on URLs[0]: every failure in it is caught.
Consent ==
    /\ pc = "consent"
    /\ \E r \in {"no_button", "clicked", "failed"} : pc' = "loop"
    /\ UNCHANGED << config, file, state, perUrl, browser, runs, history, saved, startup, prev, tries, ends, server >>

(* ---------------------------------------------------------------------- *)
(* The per-URL loop: withRetries around the page inspection                *)
(* ---------------------------------------------------------------------- *)

\* for (const url of URLs) { const wasInStock = state[url]; ... withRetries(...)
\* up to the first await of the first attempt: attempt = 0.
BeginUrl ==
    /\ pc = "loop"
    /\ idx < Len(URLs)
    /\ idx' = idx + 1
    /\ wasInStock' = Get(state, URLs[idx + 1])
    /\ nowInStock' = "none"
    /\ attempt' = 0 /\ calls' = 0 /\ delays' = 0 /\ lastCount' = -1
    /\ err' = "none" /\ thrown' = "none" /\ navs' = 0 /\ nav1' = "none"
    /\ pc' = "goto"
    /\ UNCHANGED << config, file, state, browser, runs, inspected, history, saved, startup, prev, ends, server >>

\* Variant of Exhausted with the comparison off by one.
ExhaustedOffByOne(att, max) == att > max

\* withRetries' catch block: attempt++; if (attempt >= retries) throw err;
\* otherwise wait `delay` and call fn again.
Exhausted(att, max) == att >= max

\* Variant of CatchUrlError that resets the entry of the failed URL.
CatchUrlErrorResets(st, u) == Put(st, u, "false")

\* catch (err) { console.error(`Error checking ${url}:`, err.message) }: the
\* state after the loop body's catch handled a failed inspection of u.
CatchUrlError(st, u) == st

\* The error an await of fn rejects with, by the step that was awaited:
\* the fallback page.goto, waitForTimeout, waitForSelector, locator.count.
ErrorAt(p) ==
    CASE p = "goto2" -> "NavigationError"
      [] p = "render" -> "RenderWaitError"
      [] p = "selector" -> "SelectorTimeoutError"
      [] p = "count" -> "CountError"

Errors == {ErrorAt(p) : p \in {"goto2", "render", "selector", "count"}}

\* Variant of Rethrow that raises an error of withRetries' own.
RethrowWrapped(e) == "RetriesExhaustedError"

\* catch (err) { ... if (attempt >= retries) throw err; }: what withRetries
\* raises when the caught error is e.
Rethrow(e) == e

\* An await of the attempt raised.  withRetries counts the failure and
\* either waits for the next attempt or rethrows; the rethrown error is
\* caught by the loop body's catch, which only logs it.
AttemptFailed ==
    /\ attempt' = attempt + 1
    /\ err' = ErrorAt(pc)
    /\ navs' = IF pc = "goto2" THEN navs + 1 ELSE navs
    /\ IF Exhausted(attempt + 1, retries)
       THEN /\ pc' = "loop"
            /\ thrown' = Rethrow(err')
            /\ seen' = [seen EXCEPT ![url] = Observe(@, "failed")]
            /\ state' = CatchUrlError(state, url)
       ELSE /\ pc' = "delay"
            /\ thrown' = thrown
            /\ seen' = seen
            /\ state' = state
    /\ UNCHANGED << config, file, browser, runs, idx, wasInStock,
                    nowInStock, calls, delays, lastCount, inspected, sent,
                    acked, saved, startup, prev, nav1, ends, server >>

\* Variant of AfterGoto that always runs the fallback navigation.
AfterGotoAlwaysFallback(ok) == "goto2"

\* try { await page.goto(url, {...}) } catch { await page.goto(url) }: the
\* step after the first navigation settled.
AfterGoto(ok) == IF ok THEN "render" ELSE "goto2"

\* 3a) page.goto(url, { waitUntil: 'domcontentloaded' }): the start of one
\* invocation of fn.  A failure is caught inside fn.
Goto ==
    /\ pc = "goto"
    /\ calls' = calls + 1
    /\ inspected' = inspected \cup {idx}
    /\ navs' = 1
    /\ \E ok \in BOOLEAN :
        /\ nav1' = IF ok THEN "ok" ELSE "failed"
        /\ pc' = AfterGoto(ok)
    /\ UNCHANGED << config, file, state, browser, runs, idx, wasInStock,
                    nowInStock, attempt, delays, lastCount, history, saved,
                    startup, prev, err, thrown, ends, server >>

\* 3a) the fallback page.goto(url) in fn's inner catch.
GotoFallback ==
    /\ pc = "goto2"
    /\ \/ /\ pc' = "render"
          /\ navs' = navs + 1
          /\ UNCHANGED << config, file, state, browser, runs, perUrl, history,
                          saved, startup, prev, err, thrown, nav1, ends, server >>
       \/ AttemptFailed

\* 3b) page.waitForTimeout(RENDER_WAIT)
RenderWait ==
    /\ pc = "render"
    /\ \/ /\ pc' = "selector"
          /\ UNCHANGED << config, file, state, browser, runs, perUrl, history, saved, startup, prev, tries, ends, server >>
       \/ AttemptFailed

\* 3c) page.waitForSelector(stock-button container)
WaitSelector ==
    /\ pc = "selector"
    /\ \/ /\ pc' = "count"
          /\ UNCHANGED << config, file, state, browser, runs, perUrl, history, saved, startup, prev, tries, ends, server >>
       \/ AttemptFailed

\* Variant of ShouldNotify that ignores the stored value.
ShouldNotifyAlways(was, now) == now = "true"

\* 4) if (!wasInStock && nowInStock)
ShouldNotify(was, now) == Falsy(was) /\ now = "true"

\* 3d) locator(...ADD TO BAG).count(); return addCount > 0.  withRetries
\* returns the value; without a restock the loop body logs "No alert" and
\* runs state[url] = nowInStock, with one it awaits page.title().
CountAddToBag ==
    /\ pc = "count"
    /\ \/ \E addCount \in 0..MaxAddCount :
            LET now == BoolStr(addCount > 0) IN
            /\ lastCount' = addCount
            /\ nowInStock' = now
            /\ seen' = [seen EXCEPT ![url] = Observe(@, now)]
            /\ IF ShouldNotify(wasInStock, now)
               THEN pc' = "title" /\ state' = state
               ELSE pc' = "loop" /\ state' = Put(state, url, now)
            /\ navs' = 0 /\ nav1' = "none"
            /\ UNCHANGED << config, file, browser, runs, idx, wasInStock,
                            attempt, calls, delays, inspected, sent, acked,
                            saved, startup, prev, err, thrown, ends, server >>
       \/ AttemptFailed

\* await new Promise(r => setTimeout(r, delay))
Delay ==
    /\ pc = "delay"
    /\ delays' = delays + 1
    /\ pc' = "goto"
    \* the catch block of the failed attempt is left
    /\ err' = "none" /\ navs' = 0 /\ nav1' = "none"
    /\ UNCHANGED << config, file, state, browser, runs, idx, wasInStock,
                    nowInStock, attempt, calls, lastCount, inspected, history,
                    saved, startup, prev, thrown, ends, server >>

\* const title = await page.title(): a rejection goes to the loop body's
\* catch, past the state update.
GetTitle ==
    /\ pc = "title"
    /\ \E ok \in BOOLEAN : pc' = IF ok THEN "fetch" ELSE "loop"
    /\ UNCHANGED << config, file, state, browser, runs, perUrl, history, saved, startup, prev, tries, ends, server >>

\* Variant of AfterFetch that stores the observation whatever the outcome.
AfterFetchAlways(st, u, now, r) == Put(st, u, now)

\* The state after `await fetch(...)` settled with outcome r: a response
\* (of any status) is followed by state[url] = nowInStock; a rejection goes
\* to the loop body's catch, past the state update.
AfterFetch(st, u, now, r) == IF r = "raised" THEN st ELSE Put(st, u, now)

\* await fetch('https://api.pushover.net/1/messages.json', { method: 'POST', ... })
SendAlert ==
    /\ pc = "fetch"
    /\ sent' = [sent EXCEPT ![url] = @ + 1]
    /\ \E r \in {"ok", "error_response", "raised"} :
        /\ acked' = [acked EXCEPT ![url] = IF r = "raised" THEN @ ELSE @ + 1]
        /\ state' = AfterFetch(state, url, nowInStock, r)
    /\ pc' = "loop"
    /\ UNCHANGED << config, file, browser, runs, perUrl, seen, saved, startup, prev, tries, ends, server >>

(* ---------------------------------------------------------------------- *)
(* End of a run: save, teardown, restart                                   *)
(* ---------------------------------------------------------------------- *)

\* Variant of AfterSave in which a failed write ends the process.
AfterSaveAborts(ok) == IF ok THEN "close" ELSE "crashed"

\* catch (err) { console.error('Could not write state file:', err.message) }:
\* the step after the write settled; a failure is only logged.
AfterSave(ok) == "close"

\* 5) try { writeFileSync(STATE_FILE, JSON.stringify(state, null, 2)) } catch {}
SaveState ==
    /\ pc = "loop"
    /\ idx = Len(URLs)
    /\ \E ok \in BOOLEAN :
        /\ file' = IF ok THEN Stringify(state) ELSE file
        /\ saved' = IF ok THEN "ok" ELSE "failed"
        /\ pc' = AfterSave(ok)
    \* the loop body's locals are out of scope
    /\ wasInStock' = "undefined" /\ nowInStock' = "none"
    /\ attempt' = 0 /\ calls' = 0 /\ delays' = 0 /\ lastCount' = -1
    /\ err' = "none" /\ thrown' = "none" /\ navs' = 0 /\ nav1' = "none"
    /\ writes' = writes + 1
    /\ UNCHANGED << config, state, browser, runs, idx, inspected, history,
                    startup, prev, closes, server >>

\* 6) await browser.close()
CloseBrowser ==
    /\ pc = "close"
    /\ browser' = "closed"
    /\ closes' = closes + 1
    /\ pc' = "done"
    /\ UNCHANGED << config, file, state, runs, perUrl, history, saved, startup,
                    prev, tries, writes, server >>

\* The process has ended; the supervisor loop starts it again.  Only
\* state.json and the environment survive.
Restart ==
    /\ pc \in {"done", "exited", "crashed"}
    /\ runs < MaxRuns
    /\ prev' = [ran |-> TRUE, sent |-> sent, acked |-> acked, seen |-> seen,
                saved |-> saved]
    /\ pc' = "config"
    /\ state' = EmptyObject
    /\ idx' = 0 /\ wasInStock' = "undefined" /\ nowInStock' = "none"
    /\ attempt' = 0 /\ calls' = 0 /\ delays' = 0 /\ lastCount' = -1
    /\ inspected' = {}
    /\ browser' = "none"
    /\ sent' = NoCounts /\ acked' = NoCounts /\ seen' = NothingSeen
    /\ saved' = "none"
    /\ loaded' = "none"
    /\ seeded' = EmptyObject
    /\ err' = "none" /\ thrown' = "none" /\ navs' = 0 /\ nav1' = "none"
    /\ writes' = 0 /\ closes' = 0
    /\ runs' = runs + 1
    /\ UNCHANGED << config, file, server >>

\* The steps of one process.
NextRun ==
    \/ CheckConfig
    \/ LoadState
    \/ SeedState
    \/ Launch
    \/ Consent
    \/ BeginUrl
    \/ Goto
    \/ GotoFallback
    \/ RenderWait
    \/ WaitSelector
    \/ CountAddToBag
    \/ Delay
    \/ GetTitle
    \/ SendAlert
    \/ SaveState
    \/ CloseBrowser

Next ==
    \/ NextRun
    \/ Restart

Spec == Init /\ [][Next]_vars

(* ---------------------------------------------------------------------- *)
(* The trigger server (server.js)                                          *)
(* ---------------------------------------------------------------------- *)

\* Variant of MonitorExports: monitor.js exports its main function.
MonitorExportsMain == "function"

\* const runMonitor = require('./monitor'): monitor.js assigns nothing to
\* module.exports, so require returns the empty exports object; loading the
\* module runs its top level and starts main once.
MonitorExports == "object"

\* runMonitor(): calling a value that is not a function raises a TypeError.
Callable(v) == v = "function"

\* The server process is alive and listening: require('./monitor') returned
\* (main is at its first await or beyond) and the process has not ended.
Listening == pc \notin {"config", "load", "seed", "exited", "crashed"}

\* app.get('/ping', ...): log, runMonitor().then(...).catch(...), then
\* res.send('OK').  A TypeError raised by the call leaves the handler
\* before res.send; express answers the request with status 500.
Ping ==
    /\ Listening
    /\ pings < MaxPings
    /\ pings' = pings + 1
    /\ IF Callable(MonitorExports)
       THEN triggered' = triggered + 1 /\ reply' = "OK"
       ELSE triggered' = triggered /\ reply' = "500"
    /\ UNCHANGED << config, file, state, pc, browser, runs, perUrl, history,
                    saved, startup, prev, tries, ends >>

NextServer ==
    \/ NextRun
    \/ Ping

\* node server.js: the module top level of monitor.js and its main run once,
\* when the server requires the module; requests arrive at any time.
SpecServer == Init /\ [][NextServer]_vars

\* One process in which every pending await settles (it returns or raises)
\* and the continuation waiting for it is run.
SpecLive == Init /\ [][NextRun]_vars /\ WF_vars(NextRun)

\* The monitor with withRetries given maxAttempts in 1..MaxRetriesArg.
InitRetry ==
    /\ URLs \in TrackedLists
    /\ TOKEN = TRUE
    /\ USER = TRUE
    /\ file \in {f \in FileVals : f.kind = "missing"}
    /\ retries \in 1..MaxRetriesArg
    /\ prev = NoPrev
    /\ FreshRun(1)

SpecRetry == InitRetry /\ [][Next]_vars

TypeOK ==
    /\ URLs \in TrackedLists
    /\ state \in JsonVals \cup [kind : {"array"}, props : [Keys -> EntryVals]]
    /\ file \in FileVals
    /\ pc \in {"config", "load", "seed", "launch", "consent", "loop", "goto",
               "goto2", "render", "selector", "count", "delay", "title",
               "fetch", "close", "done", "exited", "crashed"}
    /\ idx \in 0..Len(URLs)
    /\ wasInStock \in EntryVals
    /\ nowInStock \in {"none", "true", "false"}
    /\ attempt \in 0..retries
    /\ browser \in {"none", "open", "closed"}
    /\ runs \in 1..MaxRuns
    /\ loaded \in {"none", "missing", "recovered", "parsed"}
    /\ saved \in {"none", "ok", "failed"}
    /\ err \in Errors \cup {"none"}
    /\ thrown \in Errors \cup {"none"}
    /\ navs \in 0..2
    /\ nav1 \in {"none", "ok", "failed"}
    /\ writes \in 0..1
    /\ closes \in 0..1
    /\ pings \in 0..MaxPings
    /\ triggered \in 0..MaxPings
    /\ reply \in {"none", "OK", "500"}

(* ---------------------------------------------------------------------- *)
(* Properties                                                              *)
(* ---------------------------------------------------------------------- *)

Tracked == Range(URLs)

\* The URL at idx has been processed and the loop is about to go on.
AfterUrl == pc = "loop" /\ idx > 0

\* ... its inspection returned a value / exhausted its attempts.
Resolved == AfterUrl /\ nowInStock # "none"
Failed == AfterUrl /\ nowInStock = "none"

\* The run is over, its save succeeded and `state` was an object throughout.
RunSaved == pc = "done" /\ saved = "ok" /\ state.kind = "object"

\* C1 (as claimed): in a run whose load and save succeed and in which every
\* inspection of a tracked URL succeeds with the same observation, the value
\* stored for the URL after the run equals the observation, and a
\* notification request is issued for the URL if and only if the value stored
\* when the run began was false and the observation is true.
C1_RisingEdgeAcrossRuns ==
    \A u \in Keys :
        (RunSaved /\ loaded \in {"missing", "parsed"} /\ u \in Tracked
                  /\ seen[u] \in {"true", "false"})
            => /\ file.props[u] = seen[u]
               /\ (sent[u] > 0) <=> (Get(seeded, u) = "false" /\ seen[u] = "true")

C3_StoredTrueAfterNotifier ==
    (Resolved /\ state.kind = "object" /\ ShouldNotify(wasInStock, nowInStock)
              /\ sent[url] > 0)
        => Get(state, url) = "true"

\* C4 (as claimed): after an inspection that succeeded with observation
\* false the stored value for the URL is false.
C4_ResetOnFalse ==
    (Resolved /\ nowInStock = "false") => Get(state, url) = "false"

\* C5: the step in which the inspection of a URL fails on its last attempt
\* leaves the whole state mapping as it was (the URL's value is the one read
\* before the inspection, the other URLs' values are untouched) and issues
\* no notification request.
C5_FailedInspectionKeepsState ==
    [][(pc \in {"goto2", "render", "selector", "count"} /\ Failed')
           => /\ state' = state
              /\ Get(state', url) = wasInStock
              /\ sent' = sent /\ acked' = acked]_vars

C5_Witness ==
    /\ Failed /\ attempt = retries /\ wasInStock = "true"
    /\ idx = 2 /\ url = "Y" /\ Get(state, "X") = "true"

\* C6 (as claimed): every URL of the tracked list is inspected at least once
\* before the run saves, and whenever the inspection of a URL succeeds its
\* stored value is the observation once the URL has been processed.
C6_EveryUrlInspectedAndUpdated ==
    /\ pc \in {"close", "done"} => inspected = 1..Len(URLs)
    /\ (Resolved /\ state.kind = "object") => Get(state, url) = nowInStock

\* C7 (as claimed): when the per-URL loop begins every tracked URL has an
\* entry in the state and its value is a boolean, whatever state.json held;
\* from a missing file with tracked URLs [X, Y] the state is
\* {X: false, Y: false}.
C7_SeededWhenLoopBegins ==
    (pc = "loop" /\ idx = 0)
        => /\ \A u \in Tracked : Get(state, u) \in {"true", "false"}
           /\ (loaded = "missing" /\ URLs = <<"X", "Y">>)
                 => state = [kind |-> "object", props |-> [k \in Keys |-> "false"]]

\* C8 (as claimed): seeding leaves every entry of the loaded state as it was.
C8_SeedKeepsEveryEntry ==
    [][pc = "seed"
           => \A k \in Keys :
                Get(state, k) # "undefined" => Get(state', k) = Get(state, k)]_vars

\* C8 (amended): seeding leaves every loaded entry with a boolean value and
\* every loaded entry of an untracked URL as it was; a loaded entry of a
\* tracked URL whose value is not a boolean is replaced by false.
C8_SeedKeepsBooleanAndUntracked ==
    [][pc = "seed"
           => \A k \in Keys :
                /\ (Get(state, k) \in {"true", "false"}
                      \/ (k \notin Tracked /\ Get(state, k) # "undefined"))
                     => Get(state', k) = Get(state, k)
                /\ (k \in Tracked /\ Get(state, k) = "other")
                     => Get(state', k) = "false"]_vars

C8_Witness ==
    /\ pc = "launch" /\ loaded = "parsed" /\ URLs = <<"X">>
    /\ file.props["X"] = "true" /\ Get(state, "X") = "true"
    /\ file.props["Y"] = "other" /\ Get(state, "Y") = "other"

\* C9: when state.json is missing or cannot be read or parsed, the loaded
\* state is the empty mapping and the run goes on to seeding, which gives
\* every tracked URL the value false and goes on to the browser launch.
C9_LoadNeverFailsTheRun ==
    [][/\ (pc = "load" /\ file.kind \in {"missing", "malformed"})
            => (state' = EmptyObject /\ pc' = "seed")
       /\ (pc = "load" /\ loaded' = "recovered")
            => (state' = EmptyObject /\ pc' = "seed")
       /\ (pc = "seed" /\ loaded \in {"missing", "recovered"})
            => /\ pc' = "launch"
               /\ \A k \in Keys :
                    Get(state', k) = IF k \in Tracked THEN "false" ELSE "undefined"]_vars

C9_Witness ==
    /\ pc = "goto" /\ idx = 1 /\ file.kind = "malformed" /\ loaded = "recovered"
    /\ wasInStock = "false"

\* C10: for maxAttempts >= 1 withRetries invokes the operation one attempt
\* at a time and at most maxAttempts times; it waits one delay after each
\* failed attempt that is followed by another attempt and at no other time;
\* it returns at the first attempt that succeeds, with that attempt's value.
C10_RetryAttempts ==
    /\ calls <= retries
    /\ pc = "goto" => (calls = attempt /\ delays = attempt /\ attempt < retries)
    /\ pc \in {"goto2", "render", "selector", "count"}
         => (calls = attempt + 1 /\ delays = attempt)
    /\ pc = "delay" => (calls = attempt /\ delays = attempt - 1 /\ attempt < retries)
    /\ (pc \in {"title", "fetch"} \/ Resolved)
         => /\ calls = attempt + 1 /\ delays = attempt
            /\ nowInStock = BoolStr(lastCount > 0)
    /\ Failed => (calls = retries /\ attempt = retries /\ delays = retries - 1)

C10_Witness ==
    /\ Resolved /\ retries = 3 /\ attempt = 2 /\ calls = 3 /\ delays = 2
    /\ nowInStock = "true"

\* An await of fn is outstanding.
InAttempt == pc \in {"goto", "goto2", "render", "selector", "count"}

\* This step exhausts withRetries' attempts: the awaited operation raises
\* and the loop body's catch is reached without a value.
Exhausts == InAttempt /\ pc' = "loop" /\ nowInStock' = "none"

\* C11 (Retry exhaustion error identity): whenever withRetries gives up, the
\* error it raises to its caller is exactly the error that the attempt
\* failing in that step raised, for every maxAttempts; no error is raised
\* to the caller in any other step.
C11_RethrowsLastError ==
    [][/\ Exhausts => thrown' = ErrorAt(pc)
       /\ (thrown' # thrown /\ thrown' # "none") => Exhausts]_vars

\* A run whose last attempt failed at the selector wait after 3 invocations.
C11_Witness ==
    /\ Failed
    /\ calls = 3
    /\ thrown = "SelectorTimeoutError"

\* The per-URL loop has been entered and not yet left.
InLoop == pc \in {"loop", "goto", "goto2", "render", "selector", "count",
                  "delay", "title", "fetch"}

\* The loop has been left: the save was attempted.
PastLoop == pc \in {"close", "done"}

\* C12 (Persist once at the end): no write to state.json happens while the
\* URLs are being processed, exactly one write has been attempted once the
\* loop is left, and a write that succeeds leaves in the file every entry
\* of the in-memory state as it is at that point.
C12_SavedOnceWithFullState ==
    /\ InLoop => writes = 0
    /\ PastLoop => writes = 1
    /\ (PastLoop /\ saved = "ok") =>
           \A k \in Keys : file.props[k] = Get(state, k)

\* The same with `state` other than an array.
C12_ExceptArrayState == state.kind # "array" => C12_SavedOnceWithFullState

\* Browser, context and page exist: the launch step completed and the
\* process has not ended.
InSession == pc = "consent" \/ InLoop \/ pc = "close"

\* The process has ended.
Ended == pc \in {"done", "exited", "crashed"}

\* C13 (Unconditional teardown), as stated: no run whose browser was
\* launched ends with the browser still open.
C13_LaunchedBrowserClosed == Ended => browser # "open"

\* C13, amended: once browser, context and page were created the process
\* never aborts (a failed save included), browser.close() is called at most
\* once and only after the save attempt, and the run reaches its end with
\* the browser closed exactly once.
C13_SessionClosedOnceAfterSave ==
    /\ [](/\ closes <= 1
          /\ closes = 1 => (writes = 1 /\ saved # "none" /\ browser = "closed")
          /\ InSession => (closes = 0 /\ browser = "open")
          /\ pc = "done" => closes = 1)
    /\ [][InSession => (InSession' \/ pc' = "done")]_vars
    /\ (pc = "consent") ~> (pc = "done")

\* A run closed after a failed inspection and a failed save.
C13_Witness ==
    /\ pc = "done"
    /\ closes = 1
    /\ browser = "closed"
    /\ saved = "failed"
    /\ \E k \in Keys : seen[k] = "failed"

\* C14 (Fail-fast exit on configuration errors): with an empty tracked list
\* or either credential missing the process only checks its configuration
\* and exits: it never loads state.json, launches a browser, navigates,
\* issues a notification request or writes state.json.
C14_ConfigErrorExitsEarly ==
    (Len(URLs) = 0 \/ ~TOKEN \/ ~USER) =>
        /\ pc \in {"config", "exited"}
        /\ loaded = "none"
        /\ browser = "none"
        /\ inspected = {} /\ navs = 0
        /\ sent = NoCounts
        /\ writes = 0 /\ closes = 0

\* A process that exited because only the user key was missing.
C14_Witness ==
    /\ pc = "exited"
    /\ Len(URLs) > 0
    /\ TOKEN /\ ~USER

\* The keys of state.json that are not in the tracked list.
Untracked == Keys \ Tracked

\* C15 (Untracked entries are preserved): an entry of the loaded state
\* whose key is not tracked keeps its loaded value in memory for the whole
\* run, and state.json holds it with that value before and after the save.
C15_UntrackedEntriesKept ==
    (loaded = "parsed" /\ pc \notin {"config", "load", "seed"}) =>
        \A k \in Untracked :
            Get(seeded, k) # "undefined" =>
                /\ Get(state, k) = Get(seeded, k)
                /\ file.props[k] = Get(seeded, k)

\* A run that stored true for X and wrote the state with the non-boolean
\* entry of the untracked Y as loaded.
C15_Witness ==
    /\ pc = "done"
    /\ saved = "ok"
    /\ "Y" \in Untracked
    /\ Get(seeded, "Y") = "other"
    /\ Get(seeded, "X") = "false"
    /\ file.props["X"] = "true"
    /\ file.props["Y"] = "other"

\* C16 (Trigger endpoint): every handled GET /ping has started one run of
\* the monitor and was answered with the acknowledgement 'OK'.
C16_PingStartsRunAndAcknowledges ==
    /\ triggered = pings
    /\ reply \in {"none", "OK"}

\* Runs of the monitor loop started in this process: the one started when
\* monitor.js is loaded and those started by the /ping handler.
RunsStarted == 1 + triggered

C18_FallbackOnlyAfterFailedFirst ==
    /\ navs <= 2
    /\ pc = "goto2" => (nav1 = "failed" /\ navs = 1)
    /\ pc \in {"render", "selector", "count"} =>
        \/ nav1 = "ok" /\ navs = 1
        \/ nav1 = "failed" /\ navs = 2
    /\ err = "NavigationError" => (nav1 = "failed" /\ navs = 2)
    /\ (err # "none" /\ nav1 = "ok") => navs = 1

\* An attempt that failed at navigation, both navigations made, waits for
\* the next attempt.
C18_Witness ==
    /\ pc = "delay"
    /\ err = "NavigationError"
    /\ nav1 = "failed"
    /\ navs = 2

\* C19 (implicit: the stored value is set only after the notification
\* request completed): within a run an entry changes from false to true
\* only in the step in which the notification request issued for that URL
\* returns without raising; an entry that is true in memory after seeding,
\* or in a state.json the run has written, was true in the loaded state or
\* had such a request complete in this run.
C19_TrueOnlyAfterCompletedRequest ==
    /\ [][\A k \in Keys :
            (Get(state, k) = "false" /\ Get(state', k) = "true") =>
                /\ pc = "fetch" /\ k = url
                /\ sent'[k] = sent[k] + 1
                /\ acked'[k] = acked[k] + 1]_vars
    /\ [](\A k \in Keys :
            /\ (pc \notin {"config", "load", "seed"} /\ Get(state, k) = "true")
                    => (Get(seeded, k) = "true" \/ acked[k] > 0)
            /\ (PastLoop /\ saved = "ok" /\ file.props[k] = "true")
                    => (Get(seeded, k) = "true" \/ acked[k] > 0))

\* A run that loaded false for X, completed a request and wrote true.
C19_Witness ==
    /\ pc = "done"
    /\ saved = "ok"
    /\ Get(seeded, "X") = "false"
    /\ acked["X"] = 1
    /\ file.props["X"] = "true"

\* Notification requests issued so far in this run.
SentTotal == sent["X"] + sent["Y"]

\* The work done for the list entry being processed is bounded: at most 3
\* invocations of fn and 2 delays, and at most one notification request
\* per entry begun (none yet for the entry still before its request).
BoundedWork ==
    /\ calls <= DefaultRetries
    /\ delays <= DefaultRetries - 1
    /\ delays <= calls
    /\ SentTotal <= idx
    /\ (InAttempt \/ pc \in {"delay", "title", "fetch"}) => SentTotal <= idx - 1

\* C20 (implicit: bounded work and termination), as stated: every awaited
\* operation settling, a run that launched the browser reaches teardown,
\* and the work per list entry is bounded.
C20_LaunchedRunReachesTeardown ==
    /\ []BoundedWork
    /\ (browser = "open") ~> PastLoop

\* C20, amended: every awaited operation settling, a run in which browser,
\* context and page were created reaches teardown, and the work per list
\* entry is bounded.
C20_SessionRunReachesTeardown ==
    /\ []BoundedWork
    /\ (pc = "consent") ~> PastLoop

\* The last entry exhausted its 3 attempts after a request was issued for
\* the first; the save is next.
C20_Witness ==
    /\ pc = "loop"
    /\ idx = 2
    /\ Len(URLs) = 2
    /\ calls = 3
    /\ delays = 2
    /\ nowInStock = "none"
    /\ sent["X"] = 1

==============================================================================
